---- MODULE Spec2Model ----
(***************************************************************************)
(* Model of the six-stage analysis pipeline of multi_agent_system.py       *)
(* (MultiAgentAnalysisSystem) and of its scoring helpers.                  *)
(*                                                                         *)
(* String literals of the source are Korean; this tool chain accepts only  *)
(* ASCII inside strings, so every literal is written by its English gloss: *)
(*   document types   금융상품설명서 FinancialProductDisclosure,           *)
(*                    서비스약관 ServiceTerms, 개인정보처리방침            *)
(*                    PrivacyPolicy, 보안정책 SecurityPolicy,              *)
(*                    시스템구성도 SystemArchitectureDiagram, 기타 Other   *)
(*   risk categories  개인정보보호 PrivacyProtection, 데이터보안           *)
(*                    DataSecurity, 접근제어 AccessControl, 규제준수       *)
(*                    RegulatoryCompliance, 전체위험도 OverallRisk         *)
(*   compliance       전체점수 OverallScore, 오류 Error                    *)
(*   grades           우수 Excellent, 양호 Good, 보통 Fair, 미흡 Poor,     *)
(*                    부족 Inadequate                                      *)
(*   dict keys        점수 score, 등급 grade, 사유 reason, 백분율 pct      *)
(*                                                                         *)
(* Python numbers (int and float) are modelled as exact rationals          *)
(* [num, den] with den > 0.  A Python str built by an f-string is the      *)
(* sequence of its pieces, "" is <<>>.  A Python dict is a function with   *)
(* a set of strings as its domain, {} is EmptyDict.                        *)
(***************************************************************************)
EXTENDS Integers, Sequences, FiniteSets, TLC

(***************************************************************************)
(* Bounds of the model.                                                    *)
(***************************************************************************)
\* largest integer risk score a language-model reply carries (0..MaxRisk)
MaxRisk == 11
\* largest number of categories in a generated risk_assessment mapping
MaxCats == 3
\* largest number of lines in a classification reply
MaxLines == 2
\* largest number of results the web-search collaborator returns
MaxResults == 4
\* _get_grade is applied to every score k/10 with 0 <= k <= 10 * MaxGrade
MaxGrade == 110
\* longest reply, in characters, of the router's language-model call
MaxReply == 3
\* longest question, in words, put to the router
MaxQuestion == 2
\* longest report text, in characters, given to the placeholder substitution
MaxText == 5

(***************************************************************************)
(* Numbers.                                                                *)
(***************************************************************************)
R(n) == [num |-> n, den |-> 1]

RAdd(a, b) == [num |-> a.num * b.den + b.num * a.den, den |-> a.den * b.den]

RSub(a, b) == [num |-> a.num * b.den - b.num * a.den, den |-> a.den * b.den]

RMul(a, b) == [num |-> a.num * b.num, den |-> a.den * b.den]

RDiv(a, n) == [num |-> a.num, den |-> a.den * n]

RGe(a, b) == a.num * b.den >= b.num * a.den

REq(a, b) == a.num * b.den = b.num * a.den

\* Python max(a, b): b only when b > a
RMax(a, b) == IF RGe(a, b) THEN a ELSE b

\* Python round(x, digits) for digits in {0, 1}: the nearest multiple of
\* 1/scale (scale = 10^digits), an exact tie going to the even multiple.
\* The result keeps the denominator scale.
PyRound(x, scale) ==
    LET n == x.num * scale
        d == x.den
        f == n \div d
        r == n - f * d
        k == IF 2 * r < d THEN f
             ELSE IF 2 * r > d THEN f + 1
             ELSE IF f % 2 = 0 THEN f ELSE f + 1
    IN  [num |-> k, den |-> scale]

(***************************************************************************)
(* _get_grade, lines 472-483.                                              *)
(***************************************************************************)
_get_grade_strict(score) ==
    IF ~RGe(R(90), score) THEN "Excellent"
    ELSE IF ~RGe(R(80), score) THEN "Good"
    ELSE IF ~RGe(R(70), score) THEN "Fair"
    ELSE IF ~RGe(R(60), score) THEN "Poor"
    ELSE "Inadequate"

_get_grade(score) ==
    IF RGe(score, R(90)) THEN "Excellent"
    ELSE IF RGe(score, R(80)) THEN "Good"
    ELSE IF RGe(score, R(70)) THEN "Fair"
    ELSE IF RGe(score, R(60)) THEN "Poor"
    ELSE "Inadequate"

(***************************************************************************)
(* Python values.                                                          *)
(***************************************************************************)
EmptyDict == [k \in {} |-> k]

\* The one exception class raised by a call of the language model, and the
\* one raised by the web-search client; str(e) is the name.
LLMError == "llm unavailable"

SearchError == "search unavailable"

\* An entry of a risk_assessment mapping (one JSON value under a category):
\* isdict     isinstance(data, dict)
\* has        "score" in data
\* numeric    data["score"] is a JSON number
\* score      that number
\* reason     data.get("reason", "")
RiskEntry(isdict, has, numeric, score, reason) ==
    [isdict |-> isdict, has |-> has, numeric |-> numeric, score |-> score,
     reason |-> reason]

\* a JSON string, number, list or null where a record is expected
NonDictEntry == RiskEntry(FALSE, FALSE, FALSE, R(0), "")

\* a record without the key "score"
NoScoreEntry == RiskEntry(TRUE, FALSE, FALSE, R(0), "")

\* a record whose "score" is a string, a list or null
NonNumericEntry == RiskEntry(TRUE, TRUE, FALSE, R(0), "")

NumericEntry(r, reason) == RiskEntry(TRUE, TRUE, TRUE, R(r), reason)

\* risk_assessment as a JSON value: a mapping m, or any other JSON value
JsonMap(m) == [ismap |-> TRUE, m |-> m]

JsonOther == [ismap |-> FALSE, m |-> EmptyDict]

\* An entry of compliance_score
ScoreEntry(isdict, score, grade, reason, pct) ==
    [isdict |-> isdict, score |-> score, grade |-> grade, reason |-> reason,
     pct |-> pct]

\* the str value of the stub {"Error": "calculation failed"}
ScoreStubEntry == ScoreEntry(FALSE, R(0), "", "calculation failed", <<>>)

Categories ==
    {"PrivacyProtection", "DataSecurity", "AccessControl",
     "RegulatoryCompliance", "OverallRisk"}

(***************************************************************************)
(* _calculate_compliance_score, lines 433-470, as a function of            *)
(* state["risk_assessment"].                                               *)
(***************************************************************************)
ScoredCategories_all(risk_scores) ==
    {c \in DOMAIN risk_scores : risk_scores[c].isdict /\ risk_scores[c].has}

\* line 442: the categories the loop scores
ScoredCategories(risk_scores) ==
    {c \in DOMAIN risk_scores :
        c # "OverallRisk" /\ risk_scores[c].isdict /\ risk_scores[c].has}

\* line 445
risk_to_compliance(risk_score) ==
    RMax(R(10), RSub(R(110), RMul(risk_score, R(10))))

\* lines 446-450
CategoryScore(data) ==
    LET compliance_score == risk_to_compliance(data.score)
    IN  ScoreEntry(TRUE, compliance_score, _get_grade(compliance_score),
                   data.reason, <<>>)

RECURSIVE SumScores(_, _)
SumScores(scores, cats) ==
    IF cats = {} THEN R(0)
    ELSE LET c == CHOOSE x \in cats : TRUE
         IN  RAdd(scores[c].score, SumScores(scores, cats \ {c}))

OverallEntry_floor(total_score, count) ==
    LET overall_score == RDiv(total_score, count)
        tenths == (overall_score.num * 10) \div overall_score.den
    IN  ScoreEntry(TRUE, [num |-> tenths, den |-> 10], _get_grade(overall_score),
                   "", <<PyRound(overall_score, 1).num>>)

\* lines 456-461
OverallEntry(total_score, count) ==
    LET overall_score == RDiv(total_score, count)
    IN  ScoreEntry(TRUE, PyRound(overall_score, 10), _get_grade(overall_score),
                   "", <<PyRound(overall_score, 1).num>>)

ComplianceScores_lenient(risk_assessment) ==
    LET risk_scores == IF risk_assessment.ismap THEN risk_assessment.m ELSE EmptyDict
        cats == {c \in ScoredCategories(risk_scores) : risk_scores[c].numeric}
        per == [c \in cats |-> CategoryScore(risk_scores[c])]
        count == Cardinality(cats)
        total_score == SumScores(per, cats)
    IN  [raised |-> FALSE, e |-> "",
         scores |-> IF count > 0
                    THEN ("OverallScore" :> OverallEntry(total_score, count)) @@ per
                    ELSE per]

\* the try block: raised is TRUE when an exception reaches the except clause
\* (items() of a non-mapping, arithmetic on a non-number)
ComplianceScores(risk_assessment) ==
    IF ~risk_assessment.ismap THEN [raised |-> TRUE, e |-> "AttributeError", scores |-> EmptyDict]
    ELSE
    LET risk_scores == risk_assessment.m
        cats == ScoredCategories(risk_scores)
    IN  IF \E c \in cats : ~risk_scores[c].numeric
        THEN [raised |-> TRUE, e |-> "TypeError", scores |-> EmptyDict]
        ELSE
        LET per == [c \in cats |-> CategoryScore(risk_scores[c])]
            count == Cardinality(cats)
            total_score == SumScores(per, cats)
        IN  [raised |-> FALSE, e |-> "",
             scores |-> IF count > 0
                        THEN ("OverallScore" :> OverallEntry(total_score, count)) @@ per
                        ELSE per]

(***************************************************************************)
(* The state of the program.                                               *)
(***************************************************************************)
VARIABLES
    pc,                 \* "idle", "running" (inside workflow.invoke), "returned", "raised"
    node,               \* the node of the compiled workflow that runs next
    executed,           \* history: the nodes that have run, in order, each with
                        \* how it ended ("ok", "fallback", "caught") and the
                        \* exception its except clause caught
    last_outcome,       \* history: the outcome of the last collaborator call
    raised,             \* the exception that left analyze_document, "" if none
    tavily_api_key,     \* self.tavily_api_key is set (truthy)
    llm_calls,          \* history: calls of self.llm.invoke in this run
    web_calls,          \* history: calls of tavily.search in this run
    input_content,      \* the nine fields of AnalysisState, lines 17-27
    document_type,
    primary_analysis,
    risk_assessment,
    web_search_results,
    compliance_score,
    final_report,
    current_step,
    error_message,
    arg,                \* argument of the helper applied in a helper specification
    ret,                \* its result
    question,           \* route_question: the question of the last call
    route_outcome,      \* history: the outcome of its language-model call
    route,              \* the route it returned, "" before the first call
    route_pc            \* "idle", "returned", or "raised" if an exception left it

fields ==
    <<input_content, document_type, primary_analysis, risk_assessment,
      web_search_results, compliance_score, final_report, current_step,
      error_message>>

control ==
    <<pc, node, executed, last_outcome, raised, tavily_api_key, llm_calls,
      web_calls>>

helper == <<arg, ret>>

routing == <<question, route_outcome, route, route_pc>>

vars == <<control, fields, helper, routing>>

(***************************************************************************)
(* Strings the stages write.                                               *)
(***************************************************************************)
\* current_step: a label, and the confidence the classifier's label embeds
Step(text) == [text |-> text, confidence |-> <<>>]

StepConfidence(confidence) ==
    [text |-> "classification done", confidence |-> <<confidence>>]

ErrorMessage_blank(prefix, e) == [prefix |-> "", e |-> ""]

\* error_message: f"{prefix}: {str(e)}", "" is NoError
ErrorMessage(prefix, e) == [prefix |-> prefix, e |-> e]

NoError == ErrorMessage("", "")

\* a piece of a report text: literal text, or str() of a number
Lit(s) == [t |-> "lit", s |-> s, n |-> R(0)]

Num(x) == [t |-> "num", s |-> "", n |-> x]

ErrorReport_blank(e) == <<>>

\* lines 631: the literal error report, with str(e) inside
ErrorReport(e) ==
    <<Lit("## report generation error"), Lit(e), Lit("check the basic results")>>

\* web_search_results: {} / the stub of lines 388-391 / web_info of lines
\* 409-420 / the stub of line 427
WebRecord(kind, query, count, items) ==
    [kind |-> kind, query |-> query, count |-> count, items |-> items]

WebEmpty == WebRecord("empty", "", 0, 0)

WebDisabled == WebRecord("disabled", "", 0, 0)

WebFailed == WebRecord("failed", "", 0, 0)

\* primary_analysis: {} / parsed JSON / the fallback of lines 243-249 / the
\* stub of line 256
PrimaryEmpty == EmptyDict

PrimaryFailed == ("Error" :> "analysis failed")

PrimaryFallback(content) ==
    [main_content |-> content, regulatory |-> "error during analysis",
     security |-> "error during analysis", personal_data |-> "error during analysis",
     risk_factors |-> "error during analysis"]

RiskFallback_score7 ==
    JsonMap([c \in Categories |->
        IF c = "OverallRisk" THEN NumericEntry(7, "")
        ELSE NumericEntry(7, "error during analysis")])

\* lines 367-373
RiskFallback ==
    JsonMap([c \in Categories |->
        IF c = "OverallRisk" THEN NumericEntry(5, "")
        ELSE NumericEntry(5, "error during analysis")])

RiskFailed_asFallback == RiskFallback

\* line 380
RiskFailed == JsonMap("Error" :> NonDictEntry)

\* line 468
ScoreFailed == "Error" :> ScoreStubEntry

(***************************************************************************)
(* What the collaborators can answer.                                      *)
(***************************************************************************)
Contents == {"document A", "document B"}

DocTypes ==
    {"FinancialProductDisclosure", "ServiceTerms", "PrivacyPolicy",
     "SecurityPolicy", "SystemArchitectureDiagram", "Other"}

\* the outcome of one collaborator call: a reply, or an exception
Outcomes(replies, e) ==
    [ok : {TRUE}, e : {""}, reply : replies] \cup
    [ok : {FALSE}, e : {e}, reply : {CHOOSE r \in replies : TRUE}]

\* no collaborator was called
NoCall == [ok |-> TRUE, e |-> "", reply |-> "no call"]

RECURSIVE SeqsUpTo(_, _)
SeqsUpTo(S, n) ==
    IF n = 0 THEN {<<>>}
    ELSE LET shorter == SeqsUpTo(S, n - 1)
         IN  shorter \cup {Append(q, x) : q \in shorter, x \in S}

\* A line of the classification reply: which marker it contains, and
\* line.split(":")[1].strip() read as the category number (num) or, cut at
\* the first "jeom", as the confidence (isint: int() accepts it, v: its value)
Line(marker, num, isint, v) ==
    [marker |-> marker, num |-> num, isint |-> isint, v |-> v]

ClassifyLines ==
    {Line("class", num, FALSE, 0) : num \in {"1", "2", "3", "4", "5", "6", "[3]"}}
    \cup {Line("conf", "", TRUE, 8), Line("conf", "", TRUE, 12), Line("conf", "", FALSE, 0)}
    \cup {Line("none", "", FALSE, 0)}

ClassifyReplies == SeqsUpTo(ClassifyLines, MaxLines)

\* a reply of the primary-analysis call: its text (shorter than 500
\* characters) and whether json.loads accepts it, giving value
PrimaryReplies ==
    {[text |-> "{main_content: ...}", json |-> TRUE,
      value |-> [main_content |-> "summary"]],
     [text |-> "free text", json |-> FALSE, value |-> EmptyDict]}

\* the entries a generated risk_assessment mapping holds
RiskEntries ==
    {NonDictEntry, NoScoreEntry, NonNumericEntry}
    \cup {NumericEntry(r, "basis") : r \in 0..MaxRisk}

\* every mapping from at most n of the keys to entries
RiskMaps(keys, n, entries) ==
    UNION {[ks -> entries] : ks \in {k \in SUBSET keys : Cardinality(k) <= n}}

\* the keys of a generated risk_assessment mapping: three ordinary categories
\* (the loop treats every ordinary category alike), OverallRisk, and the key
\* the scoring stage itself writes
ReplyKeys ==
    {"PrivacyProtection", "DataSecurity", "AccessControl", "OverallRisk",
     "OverallScore"}

\* the replies of the shape the prompt asks for: all five categories, each
\* with a score and a reason
CompleteMaps ==
    [Categories -> {NumericEntry(r, "basis") : r \in {1, 5, 10, MaxRisk}}]

\* the keys of the one-category mappings the pipeline's risk-assessment call
\* answers: an ordinary category and the two keys the scoring stage treats
\* specially
PipelineKeys == {"PrivacyProtection", "OverallRisk", "OverallScore"}

\* a two-category mapping: a numeric score beside a score that is not a number
MixedMap ==
    ("PrivacyProtection" :> NumericEntry(5, "basis")) @@ ("DataSecurity" :> NonNumericEntry)

\* a reply of the risk-assessment call: whether json.loads accepts it, and
\* the JSON value it gives
RiskReplies ==
    {[json |-> FALSE, value |-> JsonOther], [json |-> TRUE, value |-> JsonOther]}
    \cup {[json |-> TRUE, value |-> JsonMap(m)] :
              m \in RiskMaps(PipelineKeys, 1, RiskEntries) \cup {MixedMap}}

\* the pieces a generated report is made of, and the template the prompt
\* asks for
ReportPieces == {Lit("text"), Lit("[current time]"), Lit("[score]"), Lit("[grade]")}

ReportTemplate ==
    <<Lit("[current time]"), Lit("[score]"), Lit("/100 ("), Lit("[grade]"), Lit(")")>>

\* the replies of the report call: empty, one piece, the heading line of the
\* template (longer texts are substituted in SpecSubstitute)
ReportReplies == {<<>>, ReportTemplate} \cup {<<piece>> : piece \in ReportPieces}

\* datetime.now().strftime(...), line 614
CurrentTime == Lit("2024-01-01 00:00:00")

(***************************************************************************)
(* analyze_document, lines 635-650, and the compiled workflow, lines 43-64.*)
(***************************************************************************)
EntryPoint == "document_classifier"

Edges_swapped ==
    [document_classifier |-> "primary_analyzer",
     primary_analyzer    |-> "web_searcher",
     risk_assessor       |-> "compliance_scorer",
     web_searcher        |-> "risk_assessor",
     compliance_scorer   |-> "report_generator",
     report_generator    |-> "END"]

\* lines 57-62: add_edge
Edges ==
    [document_classifier |-> "primary_analyzer",
     primary_analyzer    |-> "risk_assessor",
     risk_assessor       |-> "web_searcher",
     web_searcher        |-> "compliance_scorer",
     compliance_scorer   |-> "report_generator",
     report_generator    |-> "END"]

\* route_question has not been called
RoutingIdle ==
    /\ question = <<>>
    /\ route_outcome = NoCall
    /\ route = ""
    /\ route_pc = "idle"

Init ==
    /\ pc = "idle"
    /\ node = "END"
    /\ executed = <<>>
    /\ last_outcome = NoCall
    /\ raised = ""
    /\ tavily_api_key \in BOOLEAN
    /\ llm_calls = 0
    /\ web_calls = 0
    /\ input_content = ""
    /\ document_type = ""
    /\ primary_analysis = PrimaryEmpty
    /\ risk_assessment = JsonMap(EmptyDict)
    /\ web_search_results = WebEmpty
    /\ compliance_score = EmptyDict
    /\ final_report = <<>>
    /\ current_step = Step("start")
    /\ error_message = NoError
    /\ arg = R(0)
    /\ ret = ""
    /\ RoutingIdle

\* lines 637-649: the initial state, and workflow.invoke entered
analyze_document ==
    /\ pc \in {"idle", "returned"}
    /\ \E content \in Contents : input_content' = content
    /\ document_type' = ""
    /\ primary_analysis' = PrimaryEmpty
    /\ risk_assessment' = JsonMap(EmptyDict)
    /\ web_search_results' = WebEmpty
    /\ compliance_score' = EmptyDict
    /\ final_report' = <<>>
    /\ current_step' = Step("start")
    /\ error_message' = NoError
    /\ pc' = "running"
    /\ node' = EntryPoint
    /\ executed' = <<>>
    /\ last_outcome' = NoCall
    /\ llm_calls' = 0
    /\ web_calls' = 0
    /\ UNCHANGED <<raised, tavily_api_key, helper, routing>>

\* node n is the one to run
AtNode(n) == pc = "running" /\ node = n

Ran(n, how, e) == [node |-> n, how |-> how, e |-> e]

\* node n has returned its state: the workflow follows n's edge
Advance(n, how, e) ==
    /\ node' = Edges[n]
    /\ executed' = Append(executed, Ran(n, how, e))
    /\ UNCHANGED <<pc, raised, tavily_api_key, helper, routing>>

\* node n has let exception e through: workflow.invoke and
\* analyze_document raise it
Abort(n, e) ==
    /\ node' = "END"
    /\ executed' = Append(executed, Ran(n, "raised", e))
    /\ pc' = "raised"
    /\ raised' = e
    /\ UNCHANGED <<tavily_api_key, helper, routing>>

\* lines 649-650: the workflow reached END, the state is returned
workflow_end ==
    /\ AtNode("END")
    /\ pc' = "returned"
    /\ UNCHANGED <<node, executed, last_outcome, raised, tavily_api_key,
                   llm_calls, web_calls, fields, helper, routing>>

(***************************************************************************)
(* Stage 1: _classify_document, lines 66-153.                              *)
(***************************************************************************)
doc_types_get_echo(num) == num

\* lines 129-137
doc_types_get(num) ==
    CASE num = "1" -> "FinancialProductDisclosure"
      [] num = "2" -> "ServiceTerms"
      [] num = "3" -> "PrivacyPolicy"
      [] num = "4" -> "SecurityPolicy"
      [] num = "5" -> "SystemArchitectureDiagram"
      [] num = "6" -> "Other"
      [] OTHER -> "Other"

RECURSIVE ParseClassification_abandon(_, _, _)
ParseClassification_abandon(lines, doc_type, confidence) ==
    IF lines = <<>> THEN [doc_type |-> doc_type, confidence |-> confidence]
    ELSE LET line == Head(lines)
         IN  IF line.marker = "class"
             THEN IF line.num \in {"1", "2", "3", "4", "5", "6"}
                  THEN ParseClassification_abandon(Tail(lines), doc_types_get(line.num),
                                                   confidence)
                  ELSE [doc_type |-> "Other", confidence |-> 5]
             ELSE IF line.marker = "conf"
             THEN IF line.isint
                  THEN ParseClassification_abandon(Tail(lines), doc_type, line.v)
                  ELSE [doc_type |-> "Other", confidence |-> 5]
             ELSE ParseClassification_abandon(Tail(lines), doc_type, confidence)

\* lines 125-144: the loop over the lines, from (doc_type, confidence)
RECURSIVE ParseClassification(_, _, _)
ParseClassification(lines, doc_type, confidence) ==
    IF lines = <<>> THEN [doc_type |-> doc_type, confidence |-> confidence]
    ELSE LET line == Head(lines)
         IN  IF line.marker = "class"
             THEN ParseClassification(Tail(lines), doc_types_get(line.num), confidence)
             ELSE IF line.marker = "conf"
             THEN ParseClassification(Tail(lines), doc_type,
                                      IF line.isint THEN line.v ELSE confidence)
             ELSE ParseClassification(Tail(lines), doc_type, confidence)

_classify_document_labelled ==
    /\ AtNode("document_classifier")
    /\ llm_calls' = llm_calls + 1
    /\ \E out \in Outcomes(ClassifyReplies, LLMError) :
        /\ last_outcome' = out
        /\ IF out.ok
           THEN LET parsed == ParseClassification(out.reply, "Other", 5)
                IN  /\ document_type' = parsed.doc_type
                    /\ current_step' = StepConfidence(parsed.confidence)
                    /\ UNCHANGED error_message
                    /\ Advance("document_classifier", "ok", "")
           ELSE /\ error_message' = ErrorMessage("classification error", out.e)
                /\ document_type' = "Other"
                /\ current_step' = StepConfidence(5)
                /\ Advance("document_classifier", "caught", out.e)
    /\ UNCHANGED <<input_content, primary_analysis, risk_assessment,
                   web_search_results, compliance_score, final_report, web_calls>>

\* lines 66-153
_classify_document ==
    /\ AtNode("document_classifier")
    /\ llm_calls' = llm_calls + 1
    /\ \E out \in Outcomes(ClassifyReplies, LLMError) :
        /\ last_outcome' = out
        /\ IF out.ok
           THEN LET parsed == ParseClassification(out.reply, "Other", 5)
                IN  /\ document_type' = parsed.doc_type
                    /\ current_step' = StepConfidence(parsed.confidence)
                    /\ UNCHANGED error_message
                    /\ Advance("document_classifier", "ok", "")
           ELSE /\ error_message' = ErrorMessage("classification error", out.e)
                /\ document_type' = "Other"
                /\ UNCHANGED current_step
                /\ Advance("document_classifier", "caught", out.e)
    /\ UNCHANGED <<input_content, primary_analysis, risk_assessment,
                   web_search_results, compliance_score, final_report, web_calls>>

(***************************************************************************)
(* Stage 2: _primary_analysis, lines 155-258.                              *)
(***************************************************************************)
_primary_analysis_silent ==
    /\ AtNode("primary_analyzer")
    /\ llm_calls' = llm_calls + 1
    /\ \E out \in Outcomes(PrimaryReplies, LLMError) :
        /\ last_outcome' = out
        /\ IF out.ok
           THEN /\ primary_analysis' =
                       IF out.reply.json THEN out.reply.value
                       ELSE PrimaryFallback(out.reply.text)
                /\ current_step' = Step("primary analysis done")
                /\ Advance("primary_analyzer",
                           IF out.reply.json THEN "ok" ELSE "fallback", "")
           ELSE /\ primary_analysis' = PrimaryFailed
                /\ UNCHANGED current_step
                /\ Advance("primary_analyzer", "caught", out.e)
    /\ UNCHANGED <<input_content, document_type, risk_assessment, error_message,
                   web_search_results, compliance_score, final_report, web_calls>>

_primary_analysis_retry ==
    /\ AtNode("primary_analyzer")
    /\ \E out \in Outcomes(PrimaryReplies, LLMError) :
        /\ last_outcome' = out
        /\ llm_calls' = IF out.ok THEN llm_calls + 1 ELSE llm_calls + 2
        /\ IF out.ok
           THEN /\ primary_analysis' =
                       IF out.reply.json THEN out.reply.value
                       ELSE PrimaryFallback(out.reply.text)
                /\ current_step' = Step("primary analysis done")
                /\ UNCHANGED error_message
                /\ Advance("primary_analyzer",
                           IF out.reply.json THEN "ok" ELSE "fallback", "")
           ELSE /\ error_message' = ErrorMessage("primary analysis error", out.e)
                /\ primary_analysis' = PrimaryFailed
                /\ UNCHANGED current_step
                /\ Advance("primary_analyzer", "caught", out.e)
    /\ UNCHANGED <<input_content, document_type, risk_assessment,
                   web_search_results, compliance_score, final_report, web_calls>>

_primary_analysis ==
    /\ AtNode("primary_analyzer")
    /\ llm_calls' = llm_calls + 1
    /\ \E out \in Outcomes(PrimaryReplies, LLMError) :
        /\ last_outcome' = out
        /\ IF out.ok
           THEN /\ primary_analysis' =
                       IF out.reply.json THEN out.reply.value
                       ELSE PrimaryFallback(out.reply.text)
                /\ current_step' = Step("primary analysis done")
                /\ UNCHANGED error_message
                /\ Advance("primary_analyzer",
                           IF out.reply.json THEN "ok" ELSE "fallback", "")
           ELSE /\ error_message' = ErrorMessage("primary analysis error", out.e)
                /\ primary_analysis' = PrimaryFailed
                /\ UNCHANGED current_step
                /\ Advance("primary_analyzer", "caught", out.e)
    /\ UNCHANGED <<input_content, document_type, risk_assessment,
                   web_search_results, compliance_score, final_report, web_calls>>

(***************************************************************************)
(* Stage 3: _assess_risk, lines 260-382.                                   *)
(***************************************************************************)
_assess_risk_uncaught ==
    /\ AtNode("risk_assessor")
    /\ llm_calls' = llm_calls + 1
    /\ \E out \in Outcomes(RiskReplies, LLMError) :
        /\ last_outcome' = out
        /\ IF out.ok
           THEN /\ risk_assessment' =
                       IF out.reply.json THEN out.reply.value ELSE RiskFallback
                /\ current_step' = Step("risk assessment done")
                /\ Advance("risk_assessor",
                           IF out.reply.json THEN "ok" ELSE "fallback", "")
           ELSE /\ UNCHANGED <<risk_assessment, current_step>>
                /\ Abort("risk_assessor", out.e)
    /\ UNCHANGED <<input_content, document_type, primary_analysis, error_message,
                   web_search_results, compliance_score, final_report, web_calls>>

_assess_risk ==
    /\ AtNode("risk_assessor")
    /\ llm_calls' = llm_calls + 1
    /\ \E out \in Outcomes(RiskReplies, LLMError) :
        /\ last_outcome' = out
        /\ IF out.ok
           THEN /\ risk_assessment' =
                       IF out.reply.json THEN out.reply.value ELSE RiskFallback
                /\ current_step' = Step("risk assessment done")
                /\ UNCHANGED error_message
                /\ Advance("risk_assessor",
                           IF out.reply.json THEN "ok" ELSE "fallback", "")
           ELSE /\ error_message' = ErrorMessage("risk assessment error", out.e)
                /\ risk_assessment' = RiskFailed
                /\ UNCHANGED current_step
                /\ Advance("risk_assessor", "caught", out.e)
    /\ UNCHANGED <<input_content, document_type, primary_analysis,
                   web_search_results, compliance_score, final_report, web_calls>>

(***************************************************************************)
(* Stage 4: _search_web_info, lines 384-429.                               *)
(***************************************************************************)
Min(a, b) == IF a <= b THEN a ELSE b

\* lines 409-420: the query embeds doc_type, the count is that of all the
\* results, the list keeps the first three
WebInfo(doc_type, results) == WebRecord("results", doc_type, results, Min(results, 3))

_search_web_info_echotype ==
    /\ AtNode("web_searcher")
    /\ IF ~tavily_api_key
       THEN /\ web_search_results' = WebRecord("disabled", document_type, 0, 0)
            /\ current_step' = Step("web search skipped")
            /\ last_outcome' = NoCall
            /\ UNCHANGED <<error_message, web_calls>>
            /\ Advance("web_searcher", "ok", "")
       ELSE \E out \in Outcomes(0..MaxResults, SearchError) :
            /\ last_outcome' = out
            /\ IF out.ok
               THEN /\ web_calls' = web_calls + 1
                    /\ web_search_results' = WebInfo(document_type, out.reply)
                    /\ current_step' = Step("web search done")
                    /\ UNCHANGED error_message
                    /\ Advance("web_searcher", "ok", "")
               ELSE \* the import, the client, the search or a result raised
                    /\ \E called \in BOOLEAN :
                          web_calls' = IF called THEN web_calls + 1 ELSE web_calls
                    /\ error_message' = ErrorMessage("web search error", out.e)
                    /\ web_search_results' = WebFailed
                    /\ UNCHANGED current_step
                    /\ Advance("web_searcher", "caught", out.e)
    /\ UNCHANGED <<input_content, document_type, primary_analysis, risk_assessment,
                   compliance_score, final_report, llm_calls>>

_search_web_info_uncaught ==
    /\ AtNode("web_searcher")
    /\ IF ~tavily_api_key
       THEN /\ web_search_results' = WebDisabled
            /\ current_step' = Step("web search skipped")
            /\ last_outcome' = NoCall
            /\ UNCHANGED <<error_message, web_calls>>
            /\ Advance("web_searcher", "ok", "")
       ELSE \E out \in Outcomes(0..MaxResults, SearchError) :
            /\ last_outcome' = out
            /\ IF out.ok
               THEN /\ web_calls' = web_calls + 1
                    /\ web_search_results' = WebInfo(document_type, out.reply)
                    /\ current_step' = Step("web search done")
                    /\ UNCHANGED error_message
                    /\ Advance("web_searcher", "ok", "")
               ELSE \* the import, the client, the search or a result raised
                    /\ \E called \in BOOLEAN :
                          web_calls' = IF called THEN web_calls + 1 ELSE web_calls
                    /\ UNCHANGED <<error_message, web_search_results, current_step>>
                    /\ Abort("web_searcher", out.e)
    /\ UNCHANGED <<input_content, document_type, primary_analysis, risk_assessment,
                   compliance_score, final_report, llm_calls>>

\* lines 384-429
_search_web_info ==
    /\ AtNode("web_searcher")
    /\ IF ~tavily_api_key
       THEN /\ web_search_results' = WebDisabled
            /\ current_step' = Step("web search skipped")
            /\ last_outcome' = NoCall
            /\ UNCHANGED <<error_message, web_calls>>
            /\ Advance("web_searcher", "ok", "")
       ELSE \E out \in Outcomes(0..MaxResults, SearchError) :
            /\ last_outcome' = out
            /\ IF out.ok
               THEN /\ web_calls' = web_calls + 1
                    /\ web_search_results' = WebInfo(document_type, out.reply)
                    /\ current_step' = Step("web search done")
                    /\ UNCHANGED error_message
                    /\ Advance("web_searcher", "ok", "")
               ELSE \* the import, the client, the search or a result raised
                    /\ \E called \in BOOLEAN :
                          web_calls' = IF called THEN web_calls + 1 ELSE web_calls
                    /\ error_message' = ErrorMessage("web search error", out.e)
                    /\ web_search_results' = WebFailed
                    /\ UNCHANGED current_step
                    /\ Advance("web_searcher", "caught", out.e)
    /\ UNCHANGED <<input_content, document_type, primary_analysis, risk_assessment,
                   compliance_score, final_report, llm_calls>>

(***************************************************************************)
(* Stage 5: _calculate_compliance_score, lines 431-470.                    *)
(***************************************************************************)
_calculate_compliance_score_clobber ==
    /\ AtNode("compliance_scorer")
    /\ LET r == ComplianceScores(risk_assessment)
       IN  IF ~r.raised
           THEN /\ compliance_score' = r.scores
                /\ current_step' = Step("compliance score done")
                /\ UNCHANGED error_message
                /\ Advance("compliance_scorer", "ok", "")
           ELSE /\ error_message' = ErrorMessage("score calculation error", r.e)
                /\ compliance_score' = ScoreFailed
                /\ UNCHANGED current_step
                /\ Advance("compliance_scorer", "caught", r.e)
    /\ last_outcome' = NoCall
    /\ web_search_results' = WebEmpty
    /\ UNCHANGED <<input_content, document_type, primary_analysis, risk_assessment,
                   final_report, llm_calls, web_calls>>

\* lines 431-470
_calculate_compliance_score ==
    /\ AtNode("compliance_scorer")
    /\ LET r == ComplianceScores(risk_assessment)
       IN  IF ~r.raised
           THEN /\ compliance_score' = r.scores
                /\ current_step' = Step("compliance score done")
                /\ UNCHANGED error_message
                /\ Advance("compliance_scorer", "ok", "")
           ELSE /\ error_message' = ErrorMessage("score calculation error", r.e)
                /\ compliance_score' = ScoreFailed
                /\ UNCHANGED current_step
                /\ Advance("compliance_scorer", "caught", r.e)
    /\ last_outcome' = NoCall
    /\ UNCHANGED <<input_content, document_type, primary_analysis, risk_assessment,
                   web_search_results, final_report, llm_calls, web_calls>>

(***************************************************************************)
(* Stage 6: _generate_final_report, lines 485-633.                         *)
(***************************************************************************)
\* str.replace on a text of pieces: every occurrence of old, left to right
RECURSIVE Replace(_, _, _)
Replace(s, old, new) ==
    IF Len(s) < Len(old) THEN s
    ELSE IF SubSeq(s, 1, Len(old)) = old
    THEN new \o Replace(SubSeq(s, Len(old) + 1, Len(s)), old, new)
    ELSE <<Head(s)>> \o Replace(Tail(s), old, new)

SubstituteWith_tokenvalue(content, scores, tok) ==
    LET timed == Replace(content, tok.time, <<CurrentTime>>)
    IN  IF "OverallScore" \in DOMAIN scores
        THEN LET grade == scores["OverallScore"].grade
                 both  == Replace(timed,
                            tok.score \o tok.mid \o tok.grade \o tok.close,
                            tok.time \o tok.mid \o <<Lit(grade)>> \o tok.close)
                 scored == Replace(both, tok.score, tok.time)
             IN  Replace(scored, tok.grade, <<Lit(grade)>>)
        ELSE timed

\* lines 614-624, for the placeholders spelled as in tok; the time, the score
\* and the grade put in are pieces of their own (a date, a number, one of
\* the five grades: none of them has a bracket)
SubstituteWith(content, scores, tok) ==
    LET timed == Replace(content, tok.time, <<CurrentTime>>)
    IN  IF "OverallScore" \in DOMAIN scores
        THEN LET score == scores["OverallScore"].score
                 grade == scores["OverallScore"].grade
                 both  == Replace(timed,
                            tok.score \o tok.mid \o tok.grade \o tok.close,
                            <<Num(score)>> \o tok.mid \o <<Lit(grade)>> \o tok.close)
                 scored == Replace(both, tok.score, <<Num(score)>>)
             IN  Replace(scored, tok.grade, <<Lit(grade)>>)
        ELSE timed

\* the placeholders as whole pieces of a report
PieceTokens ==
    [time  |-> <<Lit("[current time]")>>,
     score |-> <<Lit("[score]")>>,
     grade |-> <<Lit("[grade]")>>,
     mid   |-> <<Lit("/100 (")>>,
     close |-> <<Lit(")")>>]

\* lines 614-624
Substitute(content, scores) == SubstituteWith(content, scores, PieceTokens)

_generate_final_report_keepfirst ==
    /\ AtNode("report_generator")
    /\ llm_calls' = llm_calls + 1
    /\ \E out \in Outcomes(ReportReplies, LLMError) :
        /\ last_outcome' = out
        /\ IF out.ok
           THEN /\ final_report' = Substitute(out.reply, compliance_score)
                /\ current_step' = Step("report done")
                /\ UNCHANGED error_message
                /\ Advance("report_generator", "ok", "")
           ELSE /\ error_message' =
                       IF error_message = NoError
                       THEN ErrorMessage("report generation error", out.e)
                       ELSE error_message
                /\ final_report' = ErrorReport(out.e)
                /\ UNCHANGED current_step
                /\ Advance("report_generator", "caught", out.e)
    /\ UNCHANGED <<input_content, document_type, primary_analysis, risk_assessment,
                   web_search_results, compliance_score, web_calls>>

_generate_final_report ==
    /\ AtNode("report_generator")
    /\ llm_calls' = llm_calls + 1
    /\ \E out \in Outcomes(ReportReplies, LLMError) :
        /\ last_outcome' = out
        /\ IF out.ok
           THEN /\ final_report' = Substitute(out.reply, compliance_score)
                /\ current_step' = Step("report done")
                /\ UNCHANGED error_message
                /\ Advance("report_generator", "ok", "")
           ELSE /\ error_message' = ErrorMessage("report generation error", out.e)
                /\ final_report' = ErrorReport(out.e)
                /\ UNCHANGED current_step
                /\ Advance("report_generator", "caught", out.e)
    /\ UNCHANGED <<input_content, document_type, primary_analysis, risk_assessment,
                   web_search_results, compliance_score, web_calls>>

(***************************************************************************)
(* The pipeline.                                                           *)
(***************************************************************************)
Next ==
    \/ analyze_document
    \/ _classify_document
    \/ _primary_analysis
    \/ _assess_risk
    \/ _search_web_info
    \/ _calculate_compliance_score
    \/ _generate_final_report
    \/ workflow_end

Spec == Init /\ [][Next]_vars

(***************************************************************************)
(* The scoring stage on every risk_assessment the risk-assessment stage    *)
(* can hand it: the state after the first four stages of a run without a   *)
(* web-search credential, with any stage-3 result.                         *)
(***************************************************************************)
\* a record whose "score" is the JSON number 2.004
FractionalEntry ==
    RiskEntry(TRUE, TRUE, TRUE, [num |-> 501, den |-> 250], "basis")

\* mappings with one fractional score, alone or beside an integer score
FractionalMaps ==
    {(k :> FractionalEntry) : k \in ReplyKeys}
    \cup {(p[1] :> FractionalEntry) @@ (p[2] :> NumericEntry(2, "basis")) :
              p \in {q \in ReplyKeys \X ReplyKeys : q[1] # q[2]}}

RiskAssessments(n) ==
    {RiskFallback, RiskFailed, JsonOther}
    \cup {JsonMap(m) : m \in RiskMaps(ReplyKeys, n, RiskEntries) \cup CompleteMaps}
    \cup {JsonMap(m) : m \in FractionalMaps}

InitScoring ==
    /\ pc = "running"
    /\ node = "compliance_scorer"
    /\ executed = <<Ran("document_classifier", "ok", ""), Ran("primary_analyzer", "ok", ""),
                    Ran("risk_assessor", "ok", ""), Ran("web_searcher", "ok", "")>>
    /\ last_outcome = NoCall
    /\ raised = ""
    /\ tavily_api_key = FALSE
    /\ llm_calls = 3
    /\ web_calls = 0
    /\ input_content = "document A"
    /\ document_type = "Other"
    /\ primary_analysis = [main_content |-> "summary"]
    /\ risk_assessment \in RiskAssessments(MaxCats)
    /\ web_search_results = WebDisabled
    /\ compliance_score = EmptyDict
    /\ final_report = <<>>
    /\ current_step = Step("web search skipped")
    /\ error_message = NoError
    /\ arg = R(0)
    /\ ret = ""
    /\ RoutingIdle

NextScoring == _calculate_compliance_score

SpecScoring == InitScoring /\ [][NextScoring]_vars

(***************************************************************************)
(* _get_grade on every score k/10, 0 <= k <= 10 * MaxGrade.                *)
(***************************************************************************)
InitGrade ==
    /\ pc = "idle"
    /\ node = "END"
    /\ executed = <<>>
    /\ last_outcome = NoCall
    /\ raised = ""
    /\ tavily_api_key = FALSE
    /\ llm_calls = 0
    /\ web_calls = 0
    /\ input_content = ""
    /\ document_type = ""
    /\ primary_analysis = PrimaryEmpty
    /\ risk_assessment = JsonMap(EmptyDict)
    /\ web_search_results = WebEmpty
    /\ compliance_score = EmptyDict
    /\ final_report = <<>>
    /\ current_step = Step("start")
    /\ error_message = NoError
    /\ arg \in {[num |-> k, den |-> 10] : k \in 0..(10 * MaxGrade)}
    /\ ret = ""
    /\ RoutingIdle

get_grade_call ==
    /\ ret = ""
    /\ ret' = _get_grade(arg)
    /\ UNCHANGED <<control, fields, arg, routing>>

NextGrade == get_grade_call

SpecGrade == InitGrade /\ [][NextGrade]_vars

(***************************************************************************)
(* The placeholder substitution of lines 614-624 on report texts written   *)
(* character by character, applied once as the report stage does and then  *)
(* once more to its own result.                                            *)
(***************************************************************************)
\* the placeholders character by character: t, s, g stand for the words
\* between the brackets, / for "/100 (" and ) for the closing parenthesis
CharTokens ==
    [time  |-> <<Lit("["), Lit("t"), Lit("]")>>,
     score |-> <<Lit("["), Lit("s"), Lit("]")>>,
     grade |-> <<Lit("["), Lit("g"), Lit("]")>>,
     mid   |-> <<Lit("/")>>,
     close |-> <<Lit(")")>>]

TextChars == {Lit("["), Lit("]"), Lit("t"), Lit("s"), Lit("g"), Lit("/"), Lit(")")}

\* the heading line of the report template, and texts with placeholders
\* inside and next to placeholders
LongTexts ==
    {CharTokens.time \o CharTokens.score \o CharTokens.mid \o CharTokens.grade
         \o CharTokens.close \o CharTokens.score \o CharTokens.grade,
     <<Lit("["), Lit("[")>> \o CharTokens.time \o <<Lit("s"), Lit("]"), Lit("g"), Lit("]")>>,
     <<Lit("[")>> \o CharTokens.score \o CharTokens.mid \o CharTokens.grade
         \o <<Lit("t"), Lit("]")>>}

Texts(n) == SeqsUpTo(TextChars, n) \cup LongTexts

\* the compliance_score the report stage can find: empty, the error stub,
\* with an overall entry
SubstituteScores ==
    {EmptyDict, ScoreFailed,
     ("OverallScore" :> OverallEntry(R(290), 3)) @@
         ("PrivacyProtection" :> CategoryScore(NumericEntry(1, "basis")))}

InitSubstitute ==
    /\ pc = "running"
    /\ node = "report_generator"
    /\ executed = <<Ran("document_classifier", "ok", ""), Ran("primary_analyzer", "ok", ""),
                    Ran("risk_assessor", "ok", ""), Ran("web_searcher", "ok", ""),
                    Ran("compliance_scorer", "ok", "")>>
    /\ last_outcome = NoCall
    /\ raised = ""
    /\ tavily_api_key = FALSE
    /\ llm_calls = 4
    /\ web_calls = 0
    /\ input_content = "document A"
    /\ document_type = "Other"
    /\ primary_analysis = [main_content |-> "summary"]
    /\ risk_assessment = RiskFallback
    /\ web_search_results = WebDisabled
    /\ compliance_score \in SubstituteScores
    /\ final_report = <<>>
    /\ current_step = Step("compliance score done")
    /\ error_message = NoError
    /\ arg \in Texts(MaxText)
    /\ ret = ""
    /\ RoutingIdle

\* lines 614-626 on the reply arg
substitute_reply ==
    /\ ret = ""
    /\ final_report' = SubstituteWith(arg, compliance_score, CharTokens)
    /\ ret' = "once"
    /\ UNCHANGED <<control, input_content, document_type, primary_analysis,
                   risk_assessment, web_search_results, compliance_score,
                   current_step, error_message, arg, routing>>

\* the same substitution applied to the report it produced
substitute_again ==
    /\ ret = "once"
    /\ final_report' = SubstituteWith(final_report, compliance_score, CharTokens)
    /\ ret' = "twice"
    /\ UNCHANGED <<control, input_content, document_type, primary_analysis,
                   risk_assessment, web_search_results, compliance_score,
                   current_step, error_message, arg, routing>>

NextSubstitute == substitute_reply \/ substitute_again

SpecSubstitute == InitSubstitute /\ [][NextSubstitute]_vars

(***************************************************************************)
(* create_intelligent_router.route_question, lines 804-896.  A reply is a  *)
(* sequence of characters; a question is a sequence of words, and a        *)
(* keyword is in the question when it is one of its words.                 *)
(***************************************************************************)
\* the characters of a reply: the digits the pattern looks for, another
\* digit, a letter, a space
ReplyChars == {"1", "2", "3", "4", "x", " "}

RouterReplies == SeqsUpTo(ReplyChars, MaxReply)

\* line 880
Category3Words ==
    {"comprehensive", "professional", "risk level", "security", "compliance",
     "evaluation", "examination", "check", "score"}

\* line 882
Category2Words == {"analysis", "summary", "review", "confirm", "content"}

\* the words of a question: two keywords of the list of line 880, one of the
\* list of line 882, two keywords that only the prompt names (lines 821 and
\* 838), a word in upper case that is no keyword
QuestionWords == {"comprehensive", "score", "analysis", "explain", "grade", "HELLO"}

Questions == SeqsUpTo(QuestionWords, MaxQuestion)

\* str.lower, line 879
Lower(word) == IF word = "HELLO" THEN "hello" ELSE word

\* str.strip, line 870
RECURSIVE Strip(_)
Strip(text) ==
    IF text = <<>> THEN text
    ELSE IF Head(text) = " " THEN Strip(Tail(text))
    ELSE IF text[Len(text)] = " " THEN Strip(SubSeq(text, 1, Len(text) - 1))
    ELSE text

\* \w of the pattern
IsWordChar(c) == c # " "

\* \b[123]\b matches at position i of text
MatchesAt(text, i) ==
    /\ text[i] \in {"1", "2", "3"}
    /\ (i = 1 \/ ~IsWordChar(text[i - 1]))
    /\ (i = Len(text) \/ ~IsWordChar(text[i + 1]))

\* re.findall(r'\b[123]\b', text), line 874
RECURSIVE re_findall(_, _)
re_findall(text, i) ==
    IF i > Len(text) THEN <<>>
    ELSE IF MatchesAt(text, i) THEN <<text[i]>> \o re_findall(text, i + 1)
    ELSE re_findall(text, i + 1)

FirstNumber(numbers) == numbers[1]

\* numbers[-1], line 876
LastNumber(numbers) == numbers[Len(numbers)]

\* the keywords the prompt gives for category 1, line 821; the code has no
\* list of them
Category1Words ==
    {"explain", "tell me", "what is", "how", "when", "why", "statute",
     "regulation", "term"}

AnyWordIn_first(words, q) == q # <<>> /\ Lower(q[1]) \in words

\* any(word in question_lower for word in words)
AnyWordIn(words, q) == \E i \in 1..Len(q) : Lower(q[i]) \in words

KeywordFallback_category2first(q) ==
    IF AnyWordIn(Category2Words, q) THEN "2"
    ELSE IF AnyWordIn(Category3Words, q) THEN "3"
    ELSE "1"

\* lines 879-885
KeywordFallback(q) ==
    IF AnyWordIn(Category3Words, q) THEN "3"
    ELSE IF AnyWordIn(Category2Words, q) THEN "2"
    ELSE "1"

\* lines 887-893
route_map_get(classification) ==
    CASE classification = "1" -> "qa_chatbot"
      [] classification = "2" -> "document_analysis"
      [] classification = "3" -> "multi_agent"
      [] OTHER -> "qa_chatbot"

\* lines 870-893: the route for a reply
RouteFor(q, content) ==
    LET numbers == re_findall(Strip(content), 1)
    IN  route_map_get(IF numbers # <<>> THEN LastNumber(numbers)
                      ELSE KeywordFallback(q))

route_question_uncaught ==
    /\ route_pc = "idle"
    /\ \E out \in Outcomes(RouterReplies, LLMError) :
        /\ route_outcome' = out
        /\ IF out.ok
           THEN route' = RouteFor(question, out.reply) /\ route_pc' = "returned"
           ELSE route' = "" /\ route_pc' = "raised"
    /\ UNCHANGED <<control, fields, helper, question>>

\* lines 804-896: route_question(question), its language-model call at
\* line 869 replying or throwing
route_question ==
    /\ route_pc = "idle"
    /\ \E out \in Outcomes(RouterReplies, LLMError) :
        /\ route_outcome' = out
        /\ IF out.ok
           THEN route' = RouteFor(question, out.reply)
           ELSE route' = "qa_chatbot"
    /\ route_pc' = "returned"
    /\ UNCHANGED <<control, fields, helper, question>>

InitRouter ==
    /\ pc = "idle"
    /\ node = "END"
    /\ executed = <<>>
    /\ last_outcome = NoCall
    /\ raised = ""
    /\ tavily_api_key = FALSE
    /\ llm_calls = 0
    /\ web_calls = 0
    /\ input_content = ""
    /\ document_type = ""
    /\ primary_analysis = PrimaryEmpty
    /\ risk_assessment = JsonMap(EmptyDict)
    /\ web_search_results = WebEmpty
    /\ compliance_score = EmptyDict
    /\ final_report = <<>>
    /\ current_step = Step("start")
    /\ error_message = NoError
    /\ arg = R(0)
    /\ ret = ""
    /\ question \in Questions
    /\ route_outcome = NoCall
    /\ route = ""
    /\ route_pc = "idle"

NextRouter == route_question

SpecRouter == InitRouter /\ [][NextRouter]_vars

(***************************************************************************)
(* Properties.                                                             *)
(***************************************************************************)
StageOrder ==
    <<"document_classifier", "primary_analyzer", "risk_assessor", "web_searcher",
      "compliance_scorer", "report_generator">>

NodesRun == [i \in 1..Len(executed) |-> executed[i].node]

Returned == pc = "returned"

CaughtAt(i) == i <= Len(executed) /\ executed[i].how = "caught"

\* the prefix each stage's except clause gives its error_message
StagePrefix(n) ==
    CASE n = "document_classifier" -> "classification error"
      [] n = "primary_analyzer"    -> "primary analysis error"
      [] n = "risk_assessor"       -> "risk assessment error"
      [] n = "web_searcher"        -> "web search error"
      [] n = "compliance_scorer"   -> "score calculation error"
      [] n = "report_generator"    -> "report generation error"

\* the scoring stage has run / has run to the end of its try block
ScoringDone == Len(executed) = 5 /\ executed[5].node = "compliance_scorer"

ScoringOk == ScoringDone /\ executed[5].how = "ok"

\* max(10, 110 - 10 r)
ExpectedCompliance(r) ==
    LET x == RSub(R(110), RMul(R(10), r))
    IN  IF RGe(x, R(10)) THEN x ELSE R(10)

\* the categories of mapping m that are records carrying a score, OverallRisk
\* excluded
Usable(m) == {c \in DOMAIN m : c # "OverallRisk" /\ m[c].isdict /\ m[c].has}

RECURSIVE ExpectedTotal(_, _)
ExpectedTotal(m, cats) ==
    IF cats = {} THEN R(0)
    ELSE LET c == CHOOSE x \in cats : TRUE
         IN  RAdd(ExpectedCompliance(m[c].score), ExpectedTotal(m, cats \ {c}))

Abs(x) == IF x >= 0 THEN x ELSE -x

\* s is a multiple of 1/10 and within 1/20 of total / n
IsRoundedMean(s, total, n) ==
    /\ s.den = 10
    /\ 2 * Abs(s.num * total.den * n - 10 * total.num) <= total.den * n

\* C1: in every run of analyze_document the stages run one at a time in the
\* order classify, primary analysis, assess risk, search web, compliance
\* score, report; the nodes that have run are always a prefix of that order
\* (none skipped, none repeated), the node that runs next is the next of the
\* order, and the state is returned only after all six have run.
C1_StageOrder ==
    /\ Len(executed) <= 6
    /\ NodesRun = SubSeq(StageOrder, 1, Len(executed))
    /\ (pc = "running" /\ Len(executed) < 6 => node = StageOrder[Len(executed) + 1])
    /\ (pc = "running" /\ Len(executed) = 6 => node = "END")
    /\ (Returned => Len(executed) = 6)

C1_Witness == Returned /\ NodesRun = StageOrder

\* C2: whichever of the collaborator calls throw, no exception leaves
\* analyze_document, the stage after a stage that caught an exception is the
\* next to run, and the state is returned after all six stages.
C2_FailuresNeverAbort ==
    /\ raised = ""
    /\ pc # "raised"
    /\ \A i \in 1..Len(executed) : executed[i].how # "raised"
    /\ \A i \in 1..5 :
          (CaughtAt(i) /\ Len(executed) = i) => (pc = "running" /\ node = StageOrder[i + 1])
    /\ (Returned /\ (\E i \in 1..6 : CaughtAt(i)) => Len(executed) = 6)

C2_Witness == Returned /\ \A i \in {1, 2, 3, 4, 6} : CaughtAt(i)

\* every call of the language model in the run threw
AllLLMCallsThrew == Len(executed) = 6 /\ \A i \in {1, 2, 3, 6} : CaughtAt(i)

ReportIsErrorNotice ==
    /\ final_report # <<>>
    /\ final_report[1] = Lit("## report generation error")

C4_CategoryFormula ==
    ScoringOk =>
        LET m == risk_assessment.m
        IN  /\ \A c \in Usable(m) :
                 /\ c \in DOMAIN compliance_score
                 /\ REq(compliance_score[c].score, ExpectedCompliance(m[c].score))
            /\ "OverallRisk" \notin DOMAIN compliance_score
            /\ Usable(m) # {} =>
                 IsRoundedMean(compliance_score["OverallScore"].score,
                               ExpectedTotal(m, Usable(m)), Cardinality(Usable(m)))

\* The formula of C4 for the categories whose entry the stage keeps: all but
\* a category itself named OverallScore, whose entry line 457 overwrites with
\* the mean.
ComplianceFormulaOutsideCollision ==
    ScoringOk =>
        LET m == risk_assessment.m
        IN  /\ \A c \in Usable(m) \ {"OverallScore"} :
                 /\ c \in DOMAIN compliance_score
                 /\ REq(compliance_score[c].score, ExpectedCompliance(m[c].score))
            /\ "OverallRisk" \notin DOMAIN compliance_score
            /\ Usable(m) # {} =>
                 IsRoundedMean(compliance_score["OverallScore"].score,
                               ExpectedTotal(m, Usable(m)), Cardinality(Usable(m)))

\* risk 1, 5, 10 and 11 scored 100, 60, 10 and 10, with OverallRisk present
FormulaPoints ==
    /\ ScoringOk
    /\ DOMAIN risk_assessment.m = Categories
    /\ REq(risk_assessment.m["PrivacyProtection"].score, R(1))
    /\ REq(risk_assessment.m["DataSecurity"].score, R(5))
    /\ REq(risk_assessment.m["AccessControl"].score, R(10))
    /\ REq(risk_assessment.m["RegulatoryCompliance"].score, R(MaxRisk))
    /\ REq(compliance_score["PrivacyProtection"].score, R(100))
    /\ REq(compliance_score["DataSecurity"].score, R(60))
    /\ REq(compliance_score["AccessControl"].score, R(10))
    /\ REq(compliance_score["RegulatoryCompliance"].score, R(10))

\* C5: in every returned state every score stored in compliance_score (the
\* category entries and the OverallScore entry) lies in 10..100.
C5_ScoresInRange ==
    Returned =>
        \A k \in DOMAIN compliance_score :
            compliance_score[k].isdict =>
                /\ RGe(compliance_score[k].score, R(10))
                /\ RGe(R(100), compliance_score[k].score)

\* C6: _get_grade gives Excellent from 90 up, Good from 80 below 90, Fair
\* from 70 below 80, Poor from 60 below 70 and Inadequate below 60; 90 is
\* Excellent, 89.9 Good, 60 Poor and 59.9 Inadequate.  (arg is k/10.)
C6_GradeThresholds ==
    ret # "" =>
        LET k == arg.num
        IN  /\ arg.den = 10
            /\ ret = IF k >= 900 THEN "Excellent"
                     ELSE IF k >= 800 THEN "Good"
                     ELSE IF k >= 700 THEN "Fair"
                     ELSE IF k >= 600 THEN "Poor"
                     ELSE "Inadequate"
            /\ (k = 900 => ret = "Excellent")
            /\ (k = 899 => ret = "Good")
            /\ (k = 600 => ret = "Poor")
            /\ (k = 599 => ret = "Inadequate")

C6_Witness == arg = [num |-> 900, den |-> 10] /\ ret = "Excellent"

\* C7: after a scoring stage that completed its try block on a non-empty set
\* of scored categories, compliance_score has an OverallScore entry whose
\* score is a multiple of 0.1 within 0.05 of the unweighted mean of
\* max(10, 110 - 10 r) over the scored categories.
C7_OverallIsRoundedMean ==
    (ScoringOk /\ Usable(risk_assessment.m) # {}) =>
        /\ "OverallScore" \in DOMAIN compliance_score
        /\ compliance_score["OverallScore"].isdict
        /\ IsRoundedMean(compliance_score["OverallScore"].score,
                         ExpectedTotal(risk_assessment.m, Usable(risk_assessment.m)),
                         Cardinality(Usable(risk_assessment.m)))

\* three categories scored 100, 100 and 90: the mean 96.66... is stored as 96.7
C7_Witness ==
    /\ ScoringOk
    /\ Cardinality(Usable(risk_assessment.m)) = 3
    /\ REq(ExpectedTotal(risk_assessment.m, Usable(risk_assessment.m)), R(290))
    /\ compliance_score["OverallScore"].score = [num |-> 967, den |-> 10]

\* C8: if risk_assessment is a mapping with no category other than
\* OverallRisk that is a record carrying a score, the scoring stage ends in
\* its try block (nothing raised, nothing caught), leaves error_message as
\* it was (empty here) and writes a compliance_score without OverallScore.
C8_NoUsableCategory ==
    (ScoringDone /\ risk_assessment.ismap /\ Usable(risk_assessment.m) = {}) =>
        /\ executed[5].how = "ok"
        /\ raised = ""
        /\ error_message = NoError
        /\ "OverallScore" \notin DOMAIN compliance_score
        /\ current_step = Step("compliance score done")

\* OverallRisk alone carries a score
C8_Witness ==
    /\ ScoringDone
    /\ DOMAIN risk_assessment.m = {"OverallRisk"}
    /\ risk_assessment.m["OverallRisk"].numeric
    /\ DOMAIN compliance_score = {}

\* the last stage of the run that caught an exception
LastCaught ==
    CHOOSE i \in 1..Len(executed) :
        CaughtAt(i) /\ \A j \in (i + 1)..Len(executed) : ~CaughtAt(j)

\* C9: in the returned state of a run in which stages caught exceptions,
\* error_message is exactly the message of the last of them in pipeline
\* order; nothing of an earlier message is kept.
C9_LastErrorWins ==
    (Returned /\ \E i \in 1..Len(executed) : CaughtAt(i)) =>
        error_message =
            ErrorMessage(StagePrefix(executed[LastCaught].node), executed[LastCaught].e)

\* the web search and then the report stage failed: the report's message stays
C9_Witness ==
    /\ Returned
    /\ CaughtAt(1)
    /\ CaughtAt(4)
    /\ CaughtAt(6)
    /\ error_message = ErrorMessage("report generation error", LLMError)

\* the stage that has just run
LastRun == executed[Len(executed)]

\* the degraded value stage n writes when it catches an exception
DegradedBy(n) ==
    CASE n = "document_classifier" -> document_type = "Other"
      [] n = "primary_analyzer"    -> DOMAIN primary_analysis = {"Error"}
      [] n = "risk_assessor"       -> DOMAIN risk_assessment.m = {"Error"}
      [] n = "web_searcher"        -> web_search_results.kind = "failed"
      [] n = "compliance_scorer"   -> DOMAIN compliance_score = {"Error"}
      [] n = "report_generator"    -> ReportIsErrorNotice

\* the fallback payload stage n writes for a reply it cannot parse
FallbackBy(n) ==
    CASE n = "primary_analyzer" ->
            /\ DOMAIN primary_analysis =
                 {"main_content", "regulatory", "security", "personal_data", "risk_factors"}
            /\ primary_analysis["regulatory"] = "error during analysis"
      [] n = "risk_assessor" ->
            /\ DOMAIN risk_assessment.m = Categories
            /\ \A c \in Categories : REq(risk_assessment.m[c].score, R(5))
      [] OTHER -> FALSE

\* C10 as stated: every collaborator failure of a stage, a thrown call or an
\* unparseable reply, is recorded in error_message by that stage.
C10_Original ==
    (Len(executed) > 0 /\ LastRun.how \in {"caught", "fallback"}) =>
        error_message.prefix = StagePrefix(LastRun.node)

\* C10 as amended: a stage that catches an exception writes its degraded
\* value and its own error_message; a stage whose reply cannot be parsed
\* (primary analysis, risk assessment) writes its fallback payload and leaves
\* error_message as it was.
C10_FailuresDegrade ==
    [][Len(executed') = Len(executed) + 1 =>
        /\ LastRun'.how = "caught" =>
              (/\ error_message = ErrorMessage(StagePrefix(LastRun.node), LastRun.e)
               /\ DegradedBy(LastRun.node))'
        /\ LastRun'.how = "fallback" =>
              /\ error_message' = error_message
              /\ (FallbackBy(LastRun.node))']_vars

\* the risk-assessment reply was unparseable after the primary analysis
\* threw: the fallback is written, error_message is still the earlier one
C10_Witness ==
    /\ Len(executed) = 3
    /\ executed[2].how = "caught"
    /\ executed[3].how = "fallback"
    /\ FallbackBy("risk_assessor")
    /\ error_message = ErrorMessage("primary analysis error", LLMError)

\* the risk-assessment stage has returned
RiskDone == Len(executed) >= 3 /\ executed[3].node = "risk_assessor"

\* C11: whatever the language model did in the risk-assessment stage (a JSON
\* reply, an unparseable reply, a thrown exception), the risk_assessment the
\* stage leaves for the scoring stage maps each of the five categories to a
\* record with an integer score in 1..10.
C11_RiskWellTyped ==
    RiskDone =>
        /\ risk_assessment.ismap
        /\ \A c \in Categories :
              /\ c \in DOMAIN risk_assessment.m
              /\ risk_assessment.m[c].isdict
              /\ risk_assessment.m[c].numeric
              /\ risk_assessment.m[c].score.den = 1
              /\ risk_assessment.m[c].score.num \in 1..10

\* route_question has returned after a language-model call that succeeded
RoutedOnReply == route_pc = "returned" /\ route_outcome.ok

\* the positions of the reply that hold an isolated digit 1, 2 or 3
ReplyDigitPositions ==
    {i \in 1..Len(route_outcome.reply) : MatchesAt(route_outcome.reply, i)}

\* the route a digit stands for
RouteOfDigit(d) ==
    CASE d = "1" -> "qa_chatbot"
      [] d = "2" -> "document_analysis"
      [] d = "3" -> "multi_agent"

\* the question holds a word of the list
HasKeyword(words) == \E i \in 1..Len(question) : question[i] \in words

\* C12: when the call succeeded and the reply holds an isolated 1, 2 or 3,
\* the route is the one of the last of them (1 qa_chatbot, 2
\* document_analysis, 3 multi_agent), whatever earlier digits and whatever
\* keywords of the question.
C12_LastDigitDecides ==
    (RoutedOnReply /\ ReplyDigitPositions # {}) =>
        LET last == CHOOSE i \in ReplyDigitPositions :
                        \A j \in ReplyDigitPositions : j <= i
        IN  route = RouteOfDigit(route_outcome.reply[last])

\* the reply "3 1" to a question of category-3 keywords is routed qa_chatbot
C12_Witness ==
    /\ RoutedOnReply
    /\ route_outcome.reply = <<"3", " ", "1">>
    /\ question = <<"comprehensive", "score">>
    /\ route = "qa_chatbot"

\* C13: when the reply holds no isolated 1, 2 or 3, the route comes from the
\* question's keywords: a category-3 keyword gives multi_agent, otherwise a
\* category-2 keyword gives document_analysis, otherwise qa_chatbot; a
\* question with keywords of both lists goes to multi_agent.
C13_KeywordFallback ==
    (RoutedOnReply /\ ReplyDigitPositions = {}) =>
        route = IF HasKeyword(Category3Words) THEN "multi_agent"
                ELSE IF HasKeyword(Category2Words) THEN "document_analysis"
                ELSE "qa_chatbot"

\* the reply "12" holds no isolated digit; the question has a keyword of
\* each list
C13_Witness ==
    /\ RoutedOnReply
    /\ route_outcome.reply = <<"1", "2">>
    /\ question = <<"analysis", "comprehensive">>
    /\ route = "multi_agent"

Routes == {"qa_chatbot", "document_analysis", "multi_agent"}

\* C14: route_question never raises and returns one of qa_chatbot,
\* document_analysis, multi_agent; when its language-model call throws it
\* returns qa_chatbot, whatever the question's keywords.
C14_RouterTotal ==
    /\ route_pc # "raised"
    /\ (route_pc = "returned" => route \in Routes)
    /\ (route_pc = "returned" /\ ~route_outcome.ok => route = "qa_chatbot")

\* the call threw on a question of two category-3 keywords
C14_Witness ==
    /\ route_pc = "returned"
    /\ ~route_outcome.ok
    /\ question = <<"comprehensive", "score">>
    /\ route = "qa_chatbot"

\* the question has a category-3 keyword and none of categories 2 and 1
OnlyCategory3 ==
    /\ HasKeyword(Category3Words)
    /\ ~HasKeyword(Category2Words)
    /\ ~HasKeyword(Category1Words)

\* the question has no keyword of any category
NoKeyword == ~HasKeyword(Category3Words \cup Category2Words \cup Category1Words)

\* C15 as stated: a question with a category-3 keyword and no category-2 or
\* category-1 keyword is routed to multi_agent; a question with no keyword
\* whose classification call failed is routed to qa_chatbot.
C15_Original ==
    route_pc = "returned" =>
        /\ (OnlyCategory3 => route = "multi_agent")
        /\ (NoKeyword /\ ~route_outcome.ok => route = "qa_chatbot")

\* C15 as amended: a question with a category-3 keyword and no category-2 or
\* category-1 keyword is routed to multi_agent when the reply holds no
\* isolated 1, 2 or 3, or when the last of them is 3; it is routed to
\* qa_chatbot or document_analysis when the last of them is 1 or 2, and to
\* qa_chatbot when the call throws.  A question with no keyword is routed to
\* qa_chatbot when the call throws or the reply holds no such digit.
C15_KeywordsOnlyWithoutDigit ==
    route_pc = "returned" =>
        /\ OnlyCategory3 =>
              route = IF ~route_outcome.ok THEN "qa_chatbot"
                      ELSE IF ReplyDigitPositions = {} THEN "multi_agent"
                      ELSE RouteOfDigit(route_outcome.reply[
                               CHOOSE i \in ReplyDigitPositions :
                                   \A j \in ReplyDigitPositions : j <= i])
        /\ (NoKeyword /\ (~route_outcome.ok \/ ReplyDigitPositions = {})) =>
              route = "qa_chatbot"

\* a category-3 keyword after a word that is no keyword, a reply without
\* digits: the keyword decides
C15_Witness ==
    /\ RoutedOnReply
    /\ question = <<"HELLO", "comprehensive">>
    /\ route_outcome.reply = <<"x">>
    /\ route = "multi_agent"

\* C16: a web-search stage that runs without a credential writes the one
\* stub record of lines 389-392 to web_search_results, whatever document_type
\* and the other fields hold, calls no web search, leaves error_message as
\* it was and ends normally.
C16_StubWithoutCredential ==
    [][(AtNode("web_searcher") /\ ~tavily_api_key) =>
          /\ web_search_results' = WebDisabled
          /\ web_calls' = web_calls
          /\ error_message' = error_message
          /\ LastRun' = Ran("web_searcher", "ok", "")]_vars

\* the stub was written in a run whose document_type is not the default and
\* whose earlier error_message is still there
C16_Witness ==
    /\ ~tavily_api_key
    /\ Len(executed) = 4
    /\ web_search_results = WebDisabled
    /\ document_type = "PrivacyPolicy"
    /\ error_message = ErrorMessage("risk assessment error", LLMError)
    /\ web_calls = 0

\* C17: an exception of the web-search collaborator is caught in the
\* web-search stage: the stage leaves the stub error record in
\* web_search_results, no exception leaves the run, the scoring stage is the
\* next to run, and the run returns after the scoring and report stages.
C17_WebFailureCaught ==
    ((Len(executed) = 4 /\ ~last_outcome.ok) \/ CaughtAt(4)) =>
        /\ CaughtAt(4)
        /\ executed[4].e = SearchError
        /\ web_search_results = WebFailed
        /\ raised = ""
        /\ pc # "raised"
        /\ (Len(executed) = 4 => AtNode("compliance_scorer"))
        /\ (Returned => /\ Len(executed) = 6
                        /\ executed[5].node = "compliance_scorer"
                        /\ executed[6].node = "report_generator")

\* the search threw, and the scoring and report stages then ran normally
C17_Witness ==
    /\ Returned
    /\ CaughtAt(4)
    /\ executed[5].how = "ok"
    /\ executed[6].how = "ok"
    /\ web_search_results = WebFailed

\* the stage that assigns each result field of AnalysisState
Writer ==
    [document_type      |-> "document_classifier",
     primary_analysis   |-> "primary_analyzer",
     risk_assessment    |-> "risk_assessor",
     web_search_results |-> "web_searcher",
     compliance_score   |-> "compliance_scorer",
     final_report       |-> "report_generator"]

\* the fields each stage reads: lines 115; 234-235; 358-359; 399; 435;
\* 605-609 and 618-619
StageReads ==
    [document_classifier |-> {"input_content"},
     primary_analyzer    |-> {"document_type", "input_content"},
     risk_assessor       |-> {"document_type", "primary_analysis"},
     web_searcher        |-> {"document_type"},
     compliance_scorer   |-> {"risk_assessment"},
     report_generator    |-> {"document_type", "primary_analysis", "risk_assessment",
                              "web_search_results", "compliance_score"}]

FieldValue(f) ==
    CASE f = "document_type"      -> document_type
      [] f = "primary_analysis"   -> primary_analysis
      [] f = "risk_assessment"    -> risk_assessment
      [] f = "web_search_results" -> web_search_results
      [] f = "compliance_score"   -> compliance_score
      [] f = "final_report"       -> final_report

\* the position of a stage in the run
StageIndex(n) == CHOOSE i \in 1..6 : StageOrder[i] = n

\* no stage reads a field whose writer is not an earlier stage
ReadsOnlyEarlier ==
    \A n \in DOMAIN StageReads :
        \A f \in StageReads[n] \cap DOMAIN Writer :
            StageIndex(Writer[f]) < StageIndex(n)

\* C18: during a run a step changes document_type, primary_analysis,
\* risk_assessment, web_search_results, compliance_score or final_report only
\* if it is the step of the field's own stage (stages 1 to 6 in that order),
\* no step changes input_content, and every field a stage reads is
\* input_content or the field of an earlier stage.
C18_FieldOwnership ==
    [][/\ ReadsOnlyEarlier
       /\ pc = "running" =>
             /\ input_content' = input_content
             /\ \A f \in DOMAIN Writer :
                   FieldValue(f)' # FieldValue(f) => node = Writer[f]]_vars

\* a returned run for the second document in which every stage has left a
\* value in its field
C18_Witness ==
    /\ Returned
    /\ input_content = "document B"
    /\ document_type = "SecurityPolicy"
    /\ primary_analysis # PrimaryEmpty
    /\ risk_assessment # JsonMap(EmptyDict)
    /\ web_search_results # WebEmpty
    /\ compliance_score # EmptyDict
    /\ final_report # <<>>

\* the text holds the placeholder at some position
Occurs(token, text) ==
    \E i \in 1..(Len(text) - Len(token) + 1) :
        SubSeq(text, i, i + Len(token) - 1) = token

AnyToken(text) ==
    \/ Occurs(CharTokens.time, text)
    \/ Occurs(CharTokens.score, text)
    \/ Occurs(CharTokens.grade, text)

\* C19 as stated: the substitution applied again to an already substituted
\* report leaves it unchanged, and after the first substitution no
\* placeholder remains in the report.
C19_Original ==
    [][/\ ret = "once" => final_report' = final_report
       /\ ret = "" => ~AnyToken(final_report')]_vars

\* C19 as amended: the substitution applied again to an already substituted
\* report leaves it unchanged; after the first substitution no current-time
\* placeholder remains, and no score or grade placeholder remains if
\* compliance_score has an OverallScore entry; without that entry the score
\* and grade placeholders of the reply stay in the report.
C19_SubstitutionIdempotent ==
    [][/\ ret = "once" => final_report' = final_report
       /\ ret = "" =>
             /\ ~Occurs(CharTokens.time, final_report')
             /\ "OverallScore" \in DOMAIN compliance_score => ~AnyToken(final_report')
             /\ "OverallScore" \notin DOMAIN compliance_score =>
                   final_report' = Replace(arg, CharTokens.time, <<CurrentTime>>)]_vars

\* the heading line with all three placeholders was substituted twice, with
\* an overall score: every placeholder has its value
C19_Witness ==
    /\ ret = "twice"
    /\ "OverallScore" \in DOMAIN compliance_score
    /\ Len(arg) = 17
    /\ final_report =
         <<CurrentTime, Num([num |-> 967, den |-> 10]), Lit("/"), Lit("Excellent"),
           Lit(")"), Num([num |-> 967, den |-> 10]), Lit("Excellent")>>

\* the progress labels a stage gives current_step, lines 147, 252, 376, 392
\* and 423, 464, 627
StageLabels(n) ==
    CASE n = "document_classifier" -> {"classification done"}
      [] n = "primary_analyzer"    -> {"primary analysis done"}
      [] n = "risk_assessor"       -> {"risk assessment done"}
      [] n = "web_searcher"        -> {"web search skipped", "web search done"}
      [] n = "compliance_scorer"   -> {"compliance score done"}
      [] n = "report_generator"    -> {"report done"}

\* C20 as stated: after each stage has returned, whether it succeeded or
\* failed, current_step holds that stage's own progress label; in the
\* returned state it is the report stage's label.
C20_Original ==
    /\ (Len(executed) > 0 => current_step.text \in StageLabels(LastRun.node))
    /\ (Returned => current_step.text \in StageLabels("report_generator"))

\* C20 as amended: a stage that completes its try block leaves its own
\* progress label in current_step; a stage that catches an exception leaves
\* current_step as it was.  In the returned state current_step is the report
\* stage's label only if the report stage did not fail.
C20_StepOfLastSuccess ==
    [][Len(executed') = Len(executed) + 1 =>
          /\ LastRun'.how = "caught" => current_step' = current_step
          /\ LastRun'.how # "caught" =>
                current_step'.text \in StageLabels(LastRun'.node)
          /\ (Len(executed') = 6 /\ LastRun'.how # "caught") =>
                current_step'.text \in StageLabels("report_generator")]_vars

\* the report stage failed after a scoring stage that succeeded: the
\* returned current_step is still the scoring stage's label
C20_Witness ==
    /\ Returned
    /\ CaughtAt(6)
    /\ executed[5].how = "ok"
    /\ current_step = Step("compliance score done")

(***************************************************************************)
(* C21..C30.                                                               *)
(***************************************************************************)
\* the risk stage fell back on a reply json.loads rejected
RiskFellBack == Len(executed) >= 3 /\ executed[3].how = "fallback"

OrdinaryCategories == Categories \ {"OverallRisk"}

\* C21, as stated: when the risk-assessment reply is not JSON, risk_assessment
\* holds all five categories, each with score 5 and a rationale flagging the
\* failure, and the scoring stage then gives each of the four non-overall
\* categories compliance 60.
C21_Original ==
    RiskFellBack =>
        /\ risk_assessment.ismap
        /\ DOMAIN risk_assessment.m = Categories
        /\ \A c \in Categories :
            /\ risk_assessment.m[c].numeric
            /\ REq(risk_assessment.m[c].score, R(5))
            /\ risk_assessment.m[c].reason = "error during analysis"
        /\ Len(executed) >= 5 =>
            \A c \in OrdinaryCategories :
                c \in DOMAIN compliance_score /\ REq(compliance_score[c].score, R(60))

\* C21, amended: the fallback holds all five categories with score 5; the
\* four ordinary categories carry the rationale flagging the failure, the
\* OverallRisk entry carries none; the scoring stage then gives each of the
\* four ordinary categories compliance 60 with that rationale.
C21_ParseFallback ==
    RiskFellBack =>
        /\ risk_assessment.ismap
        /\ DOMAIN risk_assessment.m = Categories
        /\ \A c \in Categories :
            /\ risk_assessment.m[c].isdict
            /\ risk_assessment.m[c].numeric
            /\ REq(risk_assessment.m[c].score, R(5))
            /\ risk_assessment.m[c].reason =
                   IF c = "OverallRisk" THEN "" ELSE "error during analysis"
        /\ Len(executed) >= 5 =>
            /\ executed[5].how = "ok"
            /\ \A c \in OrdinaryCategories :
                /\ c \in DOMAIN compliance_score
                /\ REq(compliance_score[c].score, R(60))
                /\ compliance_score[c].reason = "error during analysis"

C21_Witness ==
    /\ RiskFellBack
    /\ ScoringOk
    /\ REq(compliance_score["DataSecurity"].score, R(60))
    /\ risk_assessment.m["OverallRisk"].reason = ""

\* C22: once the classify stage has returned, whatever its reply or
\* exception, document_type is one of the six document types, and no later
\* stage of the run changes it.
C22_DocumentTypeEnum ==
    [][ /\ Len(executed') >= 1 => document_type' \in DocTypes
        /\ (Len(executed) >= 1 /\ Len(executed') > Len(executed)) =>
               document_type' = document_type ]_vars

C22_Witness ==
    /\ Returned
    /\ Len(executed) = 6
    /\ executed[1].how = "ok"
    /\ document_type = "SecurityPolicy"

\* the classify stage has just returned from a call that answered
Classified == Len(executed) = 1 /\ last_outcome.ok

\* the lines of the reply that carry a category number the table knows, and
\* those that carry a confidence int() accepts
CategoryLines(reply) ==
    {i \in 1..Len(reply) : reply[i].marker = "class"}

RecognizedLines(reply) ==
    {i \in CategoryLines(reply) : reply[i].num \in {"1", "2", "3", "4", "5", "6"}}

ConfidenceLines(reply) ==
    {i \in 1..Len(reply) : reply[i].marker = "conf" /\ reply[i].isint}

SetMax(S) == CHOOSE x \in S : \A y \in S : y <= x

\* C23: the two fields of the classification reply default independently:
\* without a recognized category number document_type is Other, without an
\* integer confidence current_step reports 5, and a field that failed to
\* parse neither fails the stage, nor sets error_message, nor loses the
\* value parsed for the other field.
C23_IndependentDefaults ==
    Classified =>
        LET reply == last_outcome.reply
        IN  /\ executed[1].how = "ok"
            /\ error_message = NoError
            /\ RecognizedLines(reply) = {} => document_type = "Other"
            /\ ConfidenceLines(reply) = {} => current_step = StepConfidence(5)
            /\ ConfidenceLines(reply) # {} =>
                   current_step = StepConfidence(reply[SetMax(ConfidenceLines(reply))].v)
            /\ (CategoryLines(reply) # {} /\ CategoryLines(reply) = RecognizedLines(reply)) =>
                   document_type = doc_types_get(reply[SetMax(CategoryLines(reply))].num)

\* a recognized category number next to a confidence that is not an integer
C23_Witness ==
    /\ Classified
    /\ last_outcome.reply = <<Line("class", "3", FALSE, 0), Line("conf", "", FALSE, 0)>>
    /\ document_type = "PrivacyPolicy"
    /\ current_step = StepConfidence(5)
    /\ error_message = NoError

\* the stages whose code calls self.llm.invoke
LLMStages ==
    {"document_classifier", "primary_analyzer", "risk_assessor", "report_generator"}

\* C24: nothing is retried and the scoring stage calls no collaborator: a
\* step of stage 1, 2, 3 or 6 invokes the language model at most once and
\* the web search never, a step of stage 4 invokes the web search at most
\* once and the language model never, a step of stage 5 invokes neither; a
\* run makes at most four language-model calls and one web search.
C24_NoRetry ==
    [][ /\ llm_calls' <= 4
        /\ web_calls' <= 1
        /\ (pc = "running" /\ node # "END") =>
              /\ llm_calls' - llm_calls \in (IF node \in LLMStages THEN {0, 1} ELSE {0})
              /\ web_calls' - web_calls \in (IF node = "web_searcher" THEN {0, 1} ELSE {0})
      ]_vars

\* a run that made all four language-model calls and the web search, one of
\* the calls having thrown
C24_Witness ==
    /\ Returned
    /\ llm_calls = 4
    /\ web_calls = 1
    /\ CaughtAt(2)

\* C25: when the language-model call of the report stage throws, the stage
\* writes the literal error report (with the error's text) to final_report
\* and the error to error_message, returns to the workflow, and leaves the
\* five fields of the earlier stages as they were.
C25_ReportFailure ==
    [][ (AtNode("report_generator") /\ ~last_outcome'.ok) =>
            /\ Len(final_report') = 3
            /\ final_report'[1] = Lit("## report generation error")
            /\ final_report'[2] = Lit(last_outcome'.e)
            /\ error_message' = ErrorMessage("report generation error", last_outcome'.e)
            /\ pc' = "running"
            /\ node' = "END"
            /\ raised' = raised
            /\ executed'[Len(executed')] =
                   Ran("report_generator", "caught", last_outcome'.e)
            /\ UNCHANGED <<document_type, primary_analysis, risk_assessment,
                           web_search_results, compliance_score>>
      ]_vars

\* a returned run whose report call threw after the scoring stage had
\* computed an overall score
C25_Witness ==
    /\ Returned
    /\ CaughtAt(6)
    /\ ~CaughtAt(5)
    /\ final_report = ErrorReport(LLMError)
    /\ "OverallScore" \in DOMAIN compliance_score
    /\ document_type = "ServiceTerms"

(***************************************************************************)
(* The chat input handler of main.py, lines 391-443: one question is       *)
(* routed and handed to one of the two handlers.                           *)
(***************************************************************************)
\* lines 256-260 and 353: the chat page is shown only when rag_chain exists,
\* that is when OPENAI_API_KEY is set, and then multi_agent_system and
\* intelligent_router have been constructed as well
Constructed == TRUE

\* the questions asked in the chat: one with a keyword of the third
\* category, one without any keyword
ChatQuestions == {<<"comprehensive">>, <<"HELLO">>}

\* line 399
ChatRoute(router_exists, q, out) ==
    IF router_exists
    THEN IF out.ok THEN RouteFor(q, out.reply) ELSE "qa_chatbot"
    ELSE "qa_chatbot"

ChatHandler_analysis(r, system_exists) ==
    IF r \in {"multi_agent", "document_analysis"} /\ system_exists
    THEN "analyze_document" ELSE "rag_chain"

\* lines 401-409
ChatHandler(r, system_exists) ==
    IF r = "multi_agent" /\ system_exists THEN "analyze_document" ELSE "rag_chain"

\* the outcomes of rag_chain.invoke: an answer, or an exception that line
\* 442 catches
RagOutcomes == {"answer", "error"}

\* lines 397-409: the question is routed, then either analyze_document is
\* entered with the question as its content (lines 637-649) or the answer
\* chain is invoked
chat_input ==
    /\ route_pc = "idle"
    /\ pc = "idle"
    /\ \E out \in Outcomes(RouterReplies, LLMError) :
        LET r == ChatRoute(Constructed, question, out)
        IN  /\ route' = r
            /\ route_pc' = "handled"
            /\ IF ChatHandler(r, Constructed) = "analyze_document"
               THEN /\ input_content' = question
                    /\ pc' = "running"
                    /\ node' = EntryPoint
                    /\ UNCHANGED helper
               ELSE /\ arg' = question
                    /\ \E answer \in RagOutcomes : ret' = answer
                    /\ UNCHANGED <<input_content, pc, node>>
    /\ UNCHANGED <<document_type, primary_analysis, risk_assessment,
                   web_search_results, compliance_score, final_report,
                   current_step, error_message, executed, last_outcome, raised,
                   tavily_api_key, llm_calls, web_calls, question, route_outcome>>

InitChat ==
    /\ pc = "idle"
    /\ node = "END"
    /\ executed = <<>>
    /\ last_outcome = NoCall
    /\ raised = ""
    /\ tavily_api_key \in BOOLEAN
    /\ llm_calls = 0
    /\ web_calls = 0
    /\ input_content = ""
    /\ document_type = ""
    /\ primary_analysis = PrimaryEmpty
    /\ risk_assessment = JsonMap(EmptyDict)
    /\ web_search_results = WebEmpty
    /\ compliance_score = EmptyDict
    /\ final_report = <<>>
    /\ current_step = Step("start")
    /\ error_message = NoError
    /\ arg = <<>>
    /\ ret = ""
    /\ question \in ChatQuestions
    /\ route_outcome = NoCall
    /\ route = ""
    /\ route_pc = "idle"

NextChat ==
    \/ chat_input
    \/ _classify_document
    \/ _primary_analysis
    \/ _assess_risk
    \/ _search_web_info
    \/ _calculate_compliance_score
    \/ _generate_final_report
    \/ workflow_end

SpecChat == InitChat /\ [][NextChat]_vars

\* which handlers have been invoked for the question
PipelineStarted == pc # "idle"

ChainInvoked == ret # ""

\* C26: after routing exactly one handler is invoked for the question: the
\* pipeline if and only if the router returned multi_agent and the
\* multi-agent system exists, the answer chain otherwise; the routes
\* qa_chatbot and document_analysis never start the pipeline.
C26_ExactlyOneHandler ==
    /\ route_pc = "idle" => (~PipelineStarted /\ ~ChainInvoked)
    /\ route_pc = "handled" =>
        /\ PipelineStarted # ChainInvoked
        /\ PipelineStarted <=> (route = "multi_agent" /\ Constructed)
        /\ ChainInvoked => arg = question
        /\ PipelineStarted => input_content = question
        /\ route \in {"qa_chatbot", "document_analysis"} => ~PipelineStarted

\* a question routed to multi_agent whose pipeline has run to its end, the
\* answer chain never invoked
C26_Witness ==
    /\ route_pc = "handled"
    /\ route = "multi_agent"
    /\ Returned
    /\ Len(executed) = 6
    /\ ~ChainInvoked

\* C27: the grade stored in the OverallScore entry is the grade the
\* thresholds of _get_grade give the score stored in that entry.
C27_GradeMatchesStoredScore ==
    (ScoringOk /\ "OverallScore" \in DOMAIN compliance_score) =>
        compliance_score["OverallScore"].grade =
            _get_grade(compliance_score["OverallScore"].score)

\* C28: in the state analyze_document returns, error_message is non-empty
\* exactly when some stage of the run caught an exception; a stage that
\* succeeds, or only falls back on a reply it could not parse, leaves
\* error_message as it was.
C28_ErrorIffCaught ==
    [][ /\ pc' = "returned" =>
              (error_message' # NoError <=>
                  \E i \in 1..Len(executed') : executed'[i].how = "caught")
        /\ (Len(executed') = Len(executed) + 1
              /\ executed'[Len(executed')].how \in {"ok", "fallback"}) =>
              error_message' = error_message
      ]_vars

\* a returned run where the web search threw, the risk stage before it fell
\* back, and the two stages after it succeeded
C28_Witness ==
    /\ Returned
    /\ Len(executed) = 6
    /\ executed[3].how = "fallback"
    /\ CaughtAt(4)
    /\ executed[5].how = "ok"
    /\ executed[6].how = "ok"
    /\ error_message = ErrorMessage("web search error", SearchError)

\* C29: after a scoring stage that caught no exception, compliance_score
\* holds the OverallScore entry exactly when it holds at least one entry of
\* another category.
C29_OverallIffCategory ==
    ScoringOk =>
        ("OverallScore" \in DOMAIN compliance_score <=>
            \E c \in DOMAIN compliance_score : c # "OverallScore")

\* the risk stage stored a parsed reply
RiskParsed == Len(executed) >= 3 /\ executed[3].how = "ok"

\* some category of the mapping is a record whose score is not a number
SomeScoreNotNumber(m) ==
    \E c \in DOMAIN m : m[c].isdict /\ m[c].has /\ ~m[c].numeric

\* the same for the categories the scoring loop reads: every category but
\* OverallRisk
SomeScoredNotNumber(m) == \E c \in Usable(m) : ~m[c].numeric

\* what the scoring stage leaves when it caught an exception, and what
\* follows it
ScoringFailedSafely ==
    /\ pc # "raised"
    /\ executed[5] \in {Ran("compliance_scorer", "caught", "TypeError"),
                        Ran("compliance_scorer", "caught", "AttributeError")}
    /\ DOMAIN compliance_score = {"Error"}
    /\ compliance_score["Error"] = ScoreStubEntry
    /\ Len(executed) = 5 =>
           (error_message.prefix = "score calculation error" /\ node = "report_generator")
    /\ Returned =>
           /\ Len(executed) = 6
           /\ executed[6].node = "report_generator"
           /\ error_message.prefix \in {"score calculation error", "report generation error"}

\* C30, as stated: when the parsed risk_assessment is not a mapping, or has
\* a category whose score is not a number, the scoring stage catches the
\* exception, writes the error stub and no category entry, records the
\* failure, and the report stage still runs.
C30_Original ==
    (Len(executed) >= 5 /\ RiskParsed
        /\ (~risk_assessment.ismap \/ SomeScoreNotNumber(risk_assessment.m))) =>
        ScoringFailedSafely

\* C30, amended: the same, when the category whose score is not a number is
\* one the scoring loop reads, that is any category but OverallRisk; a
\* non-numeric score under OverallRisk alone raises nothing and the stage
\* succeeds.
C30_MalformedRiskCaught ==
    /\ (Len(executed) >= 5 /\ RiskParsed
          /\ (~risk_assessment.ismap \/ SomeScoredNotNumber(risk_assessment.m))) =>
          ScoringFailedSafely
    /\ (Len(executed) >= 5 /\ RiskParsed /\ risk_assessment.ismap
          /\ ~SomeScoredNotNumber(risk_assessment.m)) =>
          (executed[5].how = "ok" /\ "Error" \notin DOMAIN compliance_score)

\* a returned run whose risk reply scored one category numerically and
\* another with a text: the stub, the scoring error, and a report
C30_Witness ==
    /\ Returned
    /\ RiskParsed
    /\ risk_assessment = JsonMap(MixedMap)
    /\ compliance_score = ScoreFailed
    /\ error_message = ErrorMessage("score calculation error", "TypeError")
    /\ executed[6] = Ran("report_generator", "ok", "")

====
